---- MODULE Spec2Model ----
(***************************************************************************)
(* Model of the hard-subtitle extraction pipeline of src/App.tsx           *)
(* (startOCR: sampling loop, dispatch loop, reconcile pass) and of the     *)
(* recognition client of src/services/geminiService.ts (processFrames).   *)
(*                                                                         *)
(* Times are integers counting tenths of a second: the window inputs have  *)
(* step="0.1", the sampling step 0.5 s is 5 and the merge tolerance 0.3 s  *)
(* is 3.  Texts are sequences of one-character strings so that trim() and  *)
(* toLowerCase() are computed, not assumed.                                *)
(***************************************************************************)
EXTENDS Integers, Sequences, FiniteSets, TLC

(***************************************************************************)
(* Program constants.                                                      *)
(***************************************************************************)
step == 5
batchSize == 10
Tolerance == 3

(***************************************************************************)
(* Bounds of the model.                                                    *)
(***************************************************************************)
MaxLen == 3
MaxStart == 6
MaxEnd == 115

(***************************************************************************)
(* Small arithmetic helpers (Math.max, Math.min, Math.ceil, Math.floor).   *)
(***************************************************************************)
Max(a, b) == IF a >= b THEN a ELSE b
Min(a, b) == IF a <= b THEN a ELSE b
CeilDiv(a, b) == IF a <= 0 THEN 0 - ((0 - a) \div b) ELSE (a + b - 1) \div b
FloorDiv(a, b) == a \div b

(***************************************************************************)
(* Strings: String.prototype.trim and toLowerCase on character sequences.  *)
(***************************************************************************)
IsSpace(c) == c = " "

ToLowerChar(c) == IF c = "H" THEN "h" ELSE IF c = "Y" THEN "y" ELSE IF c = "O" THEN "o" ELSE c

ToLowerCase(s) == [k \in 1..Len(s) |-> ToLowerChar(s[k])]

RECURSIVE TrimStart(_)
TrimStart(s) == IF s # <<>> /\ IsSpace(Head(s)) THEN TrimStart(Tail(s)) ELSE s

RECURSIVE TrimEnd(_)
TrimEnd(s) == IF s # <<>> /\ IsSpace(s[Len(s)]) THEN TrimEnd(SubSeq(s, 1, Len(s) - 1)) ELSE s

Trim(s) == TrimEnd(TrimStart(s))

\* sub.text.trim().toLowerCase(), the comparison key of the reconcile pass
Norm(s) == ToLowerCase(Trim(s))

(***************************************************************************)
(* Candidate subtitle entries (SubtitleEntry without its id, which the     *)
(* reconcile pass never reads).                                            *)
(***************************************************************************)
Texts == { <<"H", "i">>, <<"h", "i", " ">>, <<" ", " ">>, <<"Y", "o">> }
StartTimes == {10, 17, 18}
EndTimes == {14, 24}

Cand == [text : Texts, startTime : StartTimes, endTime : EndTimes]

\* a text field that is absent from a response item (r.text is undefined)
Undefined == <<"undefined">>

\* a number field that is absent from a response item, and the NaN parseFloat makes of it
\* (both outside the non-negative times of the model)
Absent == 0 - 1
NaN == 0 - 2

(***************************************************************************)
(* allSubs.sort((a, b) => a.startTime - b.startTime): Array.prototype.sort *)
(* is stable, so equal start times keep their accumulation order.          *)
(***************************************************************************)
RECURSIVE InsertByStart(_, _)
InsertByStart(sorted, x) ==
  IF sorted = <<>> THEN <<x>>
  ELSE IF sorted[Len(sorted)].startTime - x.startTime <= 0
       THEN Append(sorted, x)
       ELSE Append(InsertByStart(SubSeq(sorted, 1, Len(sorted) - 1), x), sorted[Len(sorted)])

RECURSIVE SortFrom(_, _)
SortFrom(done, rest) ==
  IF rest = <<>> THEN done ELSE SortFrom(InsertByStart(done, Head(rest)), Tail(rest))

SortByStartUnsorted(s) == s

SortByStart(s) == SortFrom(<<>>, s)

(***************************************************************************)
(* One iteration of sorted.forEach(sub => ...) on the accepted list.       *)
(***************************************************************************)
\* the first condition of line 136, last being finalSubs[finalSubs.length - 1]
MergeableStrict(finalSubs, sub) ==
  /\ finalSubs # <<>>
  /\ Norm(sub.text) = Norm(finalSubs[Len(finalSubs)].text)
  /\ sub.startTime < finalSubs[Len(finalSubs)].endTime + Tolerance

MergeableNoTolerance(finalSubs, sub) ==
  /\ finalSubs # <<>>
  /\ Norm(sub.text) = Norm(finalSubs[Len(finalSubs)].text)
  /\ sub.startTime <= finalSubs[Len(finalSubs)].endTime

Mergeable(finalSubs, sub) ==
  /\ finalSubs # <<>>
  /\ Norm(sub.text) = Norm(finalSubs[Len(finalSubs)].text)
  /\ sub.startTime <= finalSubs[Len(finalSubs)].endTime + Tolerance

\* the callback of sorted.forEach on the element at index k (1-based) of sorted
WalkStepKeepEmpty(finalSubs, sorted, k) ==
  IF Mergeable(finalSubs, sorted[k])
  THEN [finalSubs EXCEPT ![Len(finalSubs)].endTime = Max(finalSubs[Len(finalSubs)].endTime, sorted[k].endTime)]
  ELSE Append(finalSubs, sorted[k])

WalkStepPreviousCandidate(finalSubs, sorted, k) ==
  IF finalSubs # <<>> /\ k > 1 /\ Mergeable(<<sorted[k - 1]>>, sorted[k])
  THEN [finalSubs EXCEPT ![Len(finalSubs)].endTime = Max(finalSubs[Len(finalSubs)].endTime, sorted[k].endTime)]
  ELSE IF Len(Trim(sorted[k].text)) > 0
       THEN Append(finalSubs, sorted[k])
       ELSE finalSubs

WalkStep(finalSubs, sorted, k) ==
  IF Mergeable(finalSubs, sorted[k])
  THEN [finalSubs EXCEPT ![Len(finalSubs)].endTime = Max(finalSubs[Len(finalSubs)].endTime, sorted[k].endTime)]
  ELSE IF Len(Trim(sorted[k].text)) > 0
       THEN Append(finalSubs, sorted[k])
       ELSE finalSubs

RECURSIVE Walk(_, _, _)
Walk(finalSubs, sorted, k) ==
  IF k > Len(sorted) THEN finalSubs ELSE Walk(WalkStep(finalSubs, sorted, k), sorted, k + 1)

\* the whole reconcile pass (lines 131-141) on text-bearing candidates
ReconcileNoSort(cands) == Walk(<<>>, cands, 1)

Reconcile(cands) == Walk(<<>>, SortByStart(cands), 1)


(***************************************************************************)
(* State.                                                                  *)
(*   App component state (useState): videoUrl, metadata, timeRange,        *)
(*   subtitles, processState.  vtime is videoRef.current.currentTime.      *)
(*   apiKey is process.env.API_KEY being set.                              *)
(*   One run of startOCR: pc is the await it is suspended at, the other    *)
(*   variables are its locals (runRange is the timeRange its closure saw). *)
(*   inflight holds the generateContent requests not yet answered,         *)
(*   requests the batches submitted by the current run, received the       *)
(*   response payloads it got, lastError what its catch block logged.      *)
(*   The rc* variables belong to the step-by-step reconcile pass.          *)
(*   runsActive counts the invocations of startOCR in progress, refused    *)
(*   records an invocation that returned at its guard.                     *)
(*   runOnOldFile tells that another file was chosen while the run in      *)
(*   progress was under way, listOnOldFile that the subtitle list was set  *)
(*   by such a run.                                                        *)
(*   area (App), lockAspect and aspectRatioValue (OCRSettings), gesture    *)
(*   and startArea (VideoPlayer) are the state of the region editors.      *)
(***************************************************************************)
VARIABLES videoUrl, metadata, timeRange, subtitles, processState, vtime, apiKey,
          pc, runRange, originalTime, totalSteps, current, count, framesToProcess, i, allSubs,
          inflight, requests, received, lastError,
          runsActive, refused, runOnOldFile, listOnOldFile,
          area, lockAspect, aspectRatioValue, gesture, startArea, edits,
          rcPhase, rcIn, rcSorted, rcIdx, rcOut, rcPass, rcFirst, rcPerm

appVars == <<videoUrl, metadata, timeRange, subtitles, processState, vtime, apiKey>>
runVars == <<pc, runRange, originalTime, totalSteps, current, count, framesToProcess, i, allSubs>>
svcVars == <<inflight, requests, received, lastError>>
logVars == <<runsActive, refused>>
fileVars == <<runOnOldFile, listOnOldFile>>
rcVars == <<rcPhase, rcIn, rcSorted, rcIdx, rcOut, rcPass, rcFirst, rcPerm>>
areaVars == <<area, lockAspect, aspectRatioValue, gesture, startArea, edits>>
vars == <<appVars, runVars, svcVars, logVars, fileVars, areaVars, rcVars, areaVars>>

(***************************************************************************)
(* The region is held in percent as JavaScript numbers; the aspect lock    *)
(* divides and multiplies them, so they are exact fractions num / den here *)
(* (den > 0, lowest terms).                                                *)
(***************************************************************************)
RECURSIVE GCD(_, _)
GCD(a, b) == IF b = 0 THEN a ELSE GCD(b, a % b)

Abs(n) == IF n < 0 THEN 0 - n ELSE n

Rat(n, d) ==
  LET g == GCD(Abs(n), d)
  IN  [num |-> (Abs(n) \div g) * (IF n < 0 THEN 0 - 1 ELSE 1), den |-> d \div g]

Whole(n) == Rat(n, 1)

RLe(a, b) == a.num * b.den <= b.num * a.den
RMin(a, b) == IF RLe(a, b) THEN a ELSE b
RMax(a, b) == IF RLe(a, b) THEN b ELSE a
RAdd(a, b) == Rat(a.num * b.den + b.num * a.den, a.den * b.den)
RSub(a, b) == Rat(a.num * b.den - b.num * a.den, a.den * b.den)
RMul(a, b) == Rat(a.num * b.num, a.den * b.den)
\* a / b for b > 0 (width and height stay positive for the slider positions of the model)
RDiv(a, b) == Rat(a.num * b.den, a.den * b.num)

\* App.tsx line 19
DefaultArea == [x |-> Whole(10), y |-> Whole(75), width |-> Whole(80), height |-> Whole(18)]

\* App.tsx line 19, OCRSettings.tsx lines 30-31, VideoPlayer.tsx (isDragging, isResizing, startArea)
InitArea ==
  /\ area = DefaultArea
  /\ lockAspect = FALSE
  /\ aspectRatioValue = RDiv(DefaultArea.width, DefaultArea.height)
  /\ gesture = [isDragging |-> FALSE, isResizing |-> FALSE]
  /\ startArea = DefaultArea
  /\ edits = 0

(***************************************************************************)
(* Inputs of the model.                                                    *)
(***************************************************************************)
\* durations of the loaded videos, and the values typed into the IN / OUT inputs
Durations == {50}
WindowInputs == {7}

NoMetadata == [loaded |-> FALSE, duration |-> 0]

Frac(n, d) == [num |-> n, den |-> d]
Status(m, a, b) == [msg |-> m, a |-> a, b |-> b]

IdleState == [isProcessing |-> FALSE, progress |-> Frac(0, 1), currentStep |-> Status("", 0, 0)]
InitializingState == [isProcessing |-> TRUE, progress |-> Frac(0, 1), currentStep |-> Status("Initializing Vision Neural Scan...", 0, 0)]
CompleteState == [isProcessing |-> FALSE, progress |-> Frac(100, 1), currentStep |-> Status("Process Complete.", 0, 0)]
FailedState == [isProcessing |-> FALSE, progress |-> Frac(0, 1), currentStep |-> Status("Failed.", 0, 0)]

\* setProcessState after a captured frame: Math.min(25, (count / totalSteps) * 25);
\* count / 0 is Infinity, so the minimum is 25
ExtractingState(prev, cnt, total) ==
  [prev EXCEPT !.progress = IF total = 0 \/ (total > 0 /\ cnt >= total) THEN Frac(25, 1) ELSE Frac(cnt * 25, total),
               !.currentStep = Status("Extracting frames", cnt, total)]

MappingStateLow(prev) ==
  [prev EXCEPT !.progress = Frac(20, 1), !.currentStep = Status("Neural Dialogue Mapping...", 0, 0)]

MappingState(prev) ==
  [prev EXCEPT !.progress = Frac(30, 1), !.currentStep = Status("Neural Dialogue Mapping...", 0, 0)]

\* setProcessState after a batch: 30 + (i / framesToProcess.length) * 65, segment floor(i/10)+1 of ceil(n/10)
DecodingState(prev, idx, n) ==
  [prev EXCEPT !.progress = Frac(30 * n + idx * 65, n),
               !.currentStep = Status("Decoding segment", FloorDiv(idx, batchSize) + 1, CeilDiv(n, batchSize))]

(***************************************************************************)
(* Recognition responses.  A payload is what generateContent produced:     *)
(* a rejection, or a response whose text is absent, empty, not JSON, or    *)
(* JSON (an object, or an array of items).                                  *)
(***************************************************************************)
Item(t, s, e) == [text |-> t, startTime |-> s, endTime |-> e]

Rejected == [kind |-> "rejected", items |-> <<>>]
NoText == [kind |-> "undefined", items |-> <<>>]
EmptyText == [kind |-> "empty", items |-> <<>>]
Garbage == [kind |-> "garbage", items |-> <<>>]
JsonObject == [kind |-> "object", items |-> <<>>]
JsonArray(items) == [kind |-> "array", items |-> items]

Payloads ==
  { Rejected, NoText, EmptyText, Garbage, JsonObject,
    JsonArray(<< Item(<<"H", "i">>, 10, 14) >>),
    JsonArray(<< Item(<<"Y", "o">>, 18, 24), Item(<<"h", "i", " ">>, 17, 24) >>),
    JsonArray(<< Item(Undefined, Absent, Absent) >>) }

\* parseFloat(r.startTime): a JSON number is finite and parses back to itself,
\* an absent field (undefined) gives NaN
ParseFloat(v) == IF v = Absent THEN NaN ELSE v

\* processFrames from the response on (lines 73-85): the value returned, or the error rethrown
ProcessResponse(p) ==
  IF p.kind = "rejected" THEN [ok |-> FALSE, err |-> "ServiceError", subs |-> <<>>]
  ELSE IF p.kind = "garbage" THEN [ok |-> FALSE, err |-> "SyntaxError: JSON.parse", subs |-> <<>>]
  ELSE IF p.kind = "object" THEN [ok |-> FALSE, err |-> "TypeError: results.map", subs |-> <<>>]
  ELSE [ok |-> TRUE, err |-> "",
        subs |-> [k \in 1..Len(p.items) |->
                    [text |-> p.items[k].text,
                     startTime |-> ParseFloat(p.items[k].startTime),
                     endTime |-> ParseFloat(p.items[k].endTime)]]]

\* sub.text.trim() throws a TypeError when text is undefined
ReconcileThrows(subs) == \E k \in 1..Len(subs) : subs[k].text = Undefined

\* framesToProcess.slice(i, i + batchSize)
SliceOneMore(frames, idx) == SubSeq(frames, idx + 1, Min(idx + batchSize + 1, Len(frames)))

Slice(frames, idx) == SubSeq(frames, idx + 1, Min(idx + batchSize, Len(frames)))


(***************************************************************************)
(* startOCR, cut at its awaits.  Each operator below is the code from one  *)
(* point of the function to its next suspension or its return.             *)
(***************************************************************************)

\* catch (err): console.error(err), alert, setProcessState(Failed); fl is the set of unanswered requests
CatchSurfacesPartial(err, fl) ==
  /\ pc' = "failed"
  /\ lastError' = err
  /\ processState' = FailedState
  /\ allSubs' = <<>>
  /\ inflight' = fl
  /\ subtitles' = allSubs
  /\ UNCHANGED vtime

CatchKeepsProcessing(err, fl) ==
  /\ pc' = "failed"
  /\ lastError' = err
  /\ processState' = [FailedState EXCEPT !.isProcessing = TRUE]
  /\ allSubs' = <<>>
  /\ inflight' = fl
  /\ UNCHANGED <<subtitles, vtime>>

Catch(err, fl) ==
  /\ pc' = "failed"
  /\ lastError' = err
  /\ processState' = FailedState
  /\ allSubs' = <<>>
  /\ inflight' = fl
  /\ UNCHANGED <<subtitles, vtime>>

\* lines 131-145: reconcile pass, setSubtitles, restore of the position, completion
Complete(subs, fl) ==
  IF ReconcileThrows(subs)
  THEN Catch("TypeError: sub.text.trim", fl)
  ELSE /\ pc' = "done"
       /\ lastError' = ""
       /\ subtitles' = Reconcile(subs)
       /\ vtime' = originalTime'
       /\ processState' = CompleteState
       /\ allSubs' = <<>>
       /\ inflight' = fl

\* the for loop of lines 119-129 from its test at index idx: processFrames checks the key
\* and calls generateContent; reqs is the log of the batches submitted so far
DispatchAllAtOnce(idx, frames, subs, ps, reqs, fl) ==
  /\ i' = idx
  /\ IF idx < Len(frames)
     THEN IF ~apiKey
          THEN Catch("ApiKeyMissing", fl) /\ requests' = reqs
          ELSE /\ pc' = "recognize"
               /\ lastError' = ""
               /\ allSubs' = subs
               /\ processState' = ps
               /\ inflight' = fl \cup {[first |-> k, frames |-> Slice(frames, k)] :
                                        k \in {j \in idx..(Len(frames) - 1) : j % batchSize = 0}}
               /\ requests' = Append(reqs, Slice(frames, idx))
               /\ UNCHANGED <<subtitles, vtime>>
     ELSE Complete(subs, fl) /\ requests' = reqs

Dispatch(idx, frames, subs, ps, reqs, fl) ==
  /\ i' = idx
  /\ IF idx < Len(frames)
     THEN IF ~apiKey
          THEN Catch("ApiKeyMissing", fl) /\ requests' = reqs
          ELSE /\ pc' = "recognize"
               /\ lastError' = ""
               /\ allSubs' = subs
               /\ processState' = ps
               /\ inflight' = fl \cup {[first |-> idx, frames |-> Slice(frames, idx)]}
               /\ requests' = Append(reqs, Slice(frames, idx))
               /\ UNCHANGED <<subtitles, vtime>>
     ELSE Complete(subs, fl) /\ requests' = reqs

\* the test of the while loop at line 102
InWindowExclusive(cur, range) == cur < range.end

InWindow(cur, range) == cur <= range.end

\* the while loop of lines 102-112 from its test, with current = cur and count = cnt;
\* captureFrame (lines 54-83) registers the seeked listener and sets video.currentTime,
\* which throws when video.duration is NaN (no metadata)
SampleDispatchEarly(cur, cnt, frames, ps, reqs) ==
  /\ current' = cur
  /\ count' = cnt
  /\ framesToProcess' = frames
  /\ IF InWindow(cur, runRange') /\ cnt < 1
     THEN IF ~metadata.loaded
          THEN Catch("TypeError: video.currentTime", inflight) /\ UNCHANGED i /\ requests' = reqs
          ELSE /\ pc' = "capture"
               /\ lastError' = ""
               /\ vtime' = Min(cur, metadata.duration)
               /\ processState' = ps
               /\ requests' = reqs
               /\ UNCHANGED <<i, allSubs, subtitles, inflight>>
     ELSE Dispatch(0, frames, <<>>, MappingState(ps), reqs, inflight)

Sample(cur, cnt, frames, ps, reqs) ==
  /\ current' = cur
  /\ count' = cnt
  /\ framesToProcess' = frames
  /\ IF InWindow(cur, runRange')
     THEN IF ~metadata.loaded
          THEN Catch("TypeError: video.currentTime", inflight) /\ UNCHANGED i /\ requests' = reqs
          ELSE /\ pc' = "capture"
               /\ lastError' = ""
               /\ vtime' = Min(cur, metadata.duration)
               /\ processState' = ps
               /\ requests' = reqs
               /\ UNCHANGED <<i, allSubs, subtitles, inflight>>
     ELSE Dispatch(0, frames, <<>>, MappingState(ps), reqs, inflight)

\* the suspension points of a run that has not ended
Running == {"capture", "recognize"}

\* the start button: OCRSettings is rendered only with a video url (App.tsx line 192) and
\* shows the button only while processState.isProcessing is false (OCRSettings.tsx 184-208)
StartVisibleAlways == videoUrl

StartVisible == videoUrl /\ ~processState.isProcessing

\* line 86: the video element exists (it is rendered with the video url) and metadata is set
StartCheckVideoOnly == videoUrl

StartCheck == videoUrl /\ metadata.loaded

\* lines 85-103: the guard, the initial state, the locals, then the sampling loop.
\* runsActive counts the invocations that passed line 86 and have not ended;
\* refused records that an invocation returned at line 86.
startOCR ==
  /\ StartVisible
  /\ IF ~StartCheck
     THEN /\ refused' = TRUE
          /\ UNCHANGED <<appVars, runVars, svcVars, runsActive, fileVars, rcVars, areaVars>>
     ELSE /\ runRange' = timeRange
          /\ originalTime' = vtime
          /\ totalSteps' = CeilDiv(timeRange.end - timeRange.start, step)
          /\ received' = <<>>
          /\ UNCHANGED <<videoUrl, metadata, timeRange, apiKey, refused, rcVars, areaVars>>
          /\ Sample(timeRange.start, 0, <<>>, InitializingState, <<>>)
          /\ runsActive' = runsActive + (IF pc' \in Running THEN 1 ELSE 0)
          /\ runOnOldFile' = FALSE
          /\ listOnOldFile' = IF pc' = "done" THEN FALSE ELSE listOnOldFile

\* the video fires seeked: seekAndCapture draws the picture at the current position and
\* resolves; lines 104-111 push the frame, advance current and count, report progress
seeked ==
  /\ pc = "capture"
  /\ UNCHANGED <<videoUrl, metadata, timeRange, apiKey, runRange, originalTime, totalSteps, received, rcVars, areaVars>>
  /\ Sample(current + step, count + 1,
            Append(framesToProcess, [data |-> vtime, timestamp |-> current]),
            ExtractingState(processState, count + 1, totalSteps), requests)
  /\ runsActive' = runsActive - (IF pc' \in Running THEN 0 ELSE 1)
  /\ listOnOldFile' = IF pc' = "done" THEN runOnOldFile ELSE listOnOldFile
  /\ UNCHANGED <<refused, runOnOldFile>>

\* generateContent settles with payload p: processFrames returns or rethrows (lines 73-85),
\* then lines 122-128 accumulate, report progress and go on with the next batch
response(p) ==
  /\ pc = "recognize"
  /\ UNCHANGED <<videoUrl, metadata, timeRange, apiKey, runRange, originalTime, totalSteps,
                 current, count, framesToProcess, rcVars, areaVars>>
  /\ \E req \in inflight :
       /\ received' = Append(received, p)
       /\ IF ProcessResponse(p).ok
          THEN Dispatch(i + batchSize, framesToProcess, allSubs \o ProcessResponse(p).subs,
                        DecodingState(processState, i, Len(framesToProcess)), requests,
                        inflight \ {req})
          ELSE Catch(ProcessResponse(p).err, inflight \ {req}) /\ UNCHANGED <<i, requests>>
  /\ runsActive' = runsActive - (IF pc' \in Running THEN 0 ELSE 1)
  /\ listOnOldFile' = IF pc' = "done" THEN runOnOldFile ELSE listOnOldFile
  /\ UNCHANGED <<refused, runOnOldFile>>

(***************************************************************************)
(* The other handlers of the App component.                                *)
(***************************************************************************)
\* lines 40-47 (and the effect of lines 32-38, which gives the video element its url)
handleFileChange ==
  /\ videoUrl' = TRUE
  /\ subtitles' = <<>>
  /\ metadata' = NoMetadata
  /\ runOnOldFile' = (pc \in Running)
  /\ listOnOldFile' = FALSE
  /\ UNCHANGED <<timeRange, processState, vtime, apiKey, runVars, svcVars, logVars, rcVars, areaVars>>

\* lines 49-52, called from onLoadedMetadata of the video element
handleMetadataLoaded(d) ==
  /\ videoUrl
  /\ ~metadata.loaded
  /\ metadata' = [loaded |-> TRUE, duration |-> d]
  /\ timeRange' = [start |-> 0, end |-> d]
  /\ UNCHANGED <<videoUrl, subtitles, processState, vtime, apiKey, runVars, svcVars, logVars, fileVars, rcVars, areaVars>>

\* OCRSettings.tsx line 164: onChange of the IN input
setTimeRangeStart(v) ==
  /\ videoUrl
  /\ timeRange' = [timeRange EXCEPT !.start = Max(0, v)]
  /\ UNCHANGED <<videoUrl, metadata, subtitles, processState, vtime, apiKey, runVars, svcVars, logVars, fileVars, rcVars, areaVars>>

\* OCRSettings.tsx line 173: onChange of the OUT input; totalDuration is metadata?.duration || 0
setTimeRangeEnd(v) ==
  /\ videoUrl
  /\ timeRange' = [timeRange EXCEPT !.end = Min(IF metadata.loaded THEN metadata.duration ELSE 0, v)]
  /\ UNCHANGED <<videoUrl, metadata, subtitles, processState, vtime, apiKey, runVars, svcVars, logVars, fileVars, rcVars, areaVars>>

(***************************************************************************)
(* The application after construction (App.tsx lines 16-28).               *)
(***************************************************************************)
InitRest ==
  /\ subtitles = <<>>
  /\ processState = IdleState
  /\ vtime = 0
  /\ pc = "idle"
  /\ runRange = [start |-> 0, end |-> 0]
  /\ originalTime = 0
  /\ totalSteps = 0
  /\ current = 0
  /\ count = 0
  /\ framesToProcess = <<>>
  /\ i = 0
  /\ allSubs = <<>>
  /\ inflight = {}
  /\ requests = <<>>
  /\ received = <<>>
  /\ lastError = ""
  /\ runsActive = 0
  /\ refused = FALSE
  /\ runOnOldFile = FALSE
  /\ listOnOldFile = FALSE
  /\ InitArea

InitApp ==
  /\ videoUrl = FALSE
  /\ metadata = NoMetadata
  /\ timeRange = [start |-> 0, end |-> 0]
  /\ InitRest

InitRc ==
  /\ rcPhase = "off"
  /\ rcIn = <<>>
  /\ rcSorted = <<>>
  /\ rcIdx = 0
  /\ rcOut = <<>>
  /\ rcPass = 0
  /\ rcFirst = <<>>
  /\ rcPerm = <<>>

Init == InitApp /\ InitRc /\ apiKey \in BOOLEAN

Next ==
  \/ handleFileChange
  \/ \E d \in Durations : handleMetadataLoaded(d)
  \/ \E v \in WindowInputs : setTimeRangeStart(v)
  \/ \E v \in WindowInputs : setTimeRangeEnd(v)
  \/ startOCR
  \/ seeked
  \/ \E p \in Payloads : response(p)

Spec == Init /\ [][Next]_vars

(***************************************************************************)
(* Runs of startOCR on a loaded video for every window with start in       *)
(* 0..MaxStart and end in 0..MaxEnd (the window the inputs can produce),   *)
(* with a service that either rejects or answers one candidate.            *)
(***************************************************************************)
InitWindow ==
  /\ videoUrl = TRUE
  /\ metadata = [loaded |-> TRUE, duration |-> MaxEnd]
  /\ timeRange \in [start : 0..MaxStart, end : 0..MaxEnd]
  /\ InitRest
  /\ InitRc
  /\ apiKey = TRUE

WindowPayloads == { Rejected, JsonArray(<< Item(<<"H", "i">>, 10, 14) >>) }

NextWindow ==
  \/ startOCR
  \/ seeked
  \/ \E p \in WindowPayloads : response(p)

SpecWindow == InitWindow /\ [][NextWindow]_vars

(***************************************************************************)
(* The reconcile pass of lines 131-141 on its own, one forEach iteration   *)
(* per step, applied to every candidate list of at most MaxLen entries and *)
(* then once more to its own output.                                       *)
(***************************************************************************)
CandLists == UNION {[1..n -> Cand] : n \in 0..MaxLen}

InitReconcile ==
  /\ InitApp
  /\ apiKey = TRUE
  /\ rcPhase = "input"
  /\ rcIn \in CandLists
  /\ rcSorted = <<>>
  /\ rcIdx = 0
  /\ rcOut = <<>>
  /\ rcPass = 1
  /\ rcFirst = <<>>
  /\ rcPerm = <<>>

\* line 132
rcSort ==
  /\ rcPhase = "input"
  /\ rcSorted' = SortByStart(IF rcPass = 1 THEN rcIn ELSE rcFirst)
  /\ rcIdx' = 1
  /\ rcOut' = <<>>
  /\ rcPhase' = IF (IF rcPass = 1 THEN rcIn ELSE rcFirst) = <<>> THEN "done" ELSE "walk"
  /\ UNCHANGED <<rcIn, rcPass, rcFirst, rcPerm, appVars, runVars, svcVars, logVars, fileVars, areaVars>>

\* lines 134-141, one iteration
rcStep ==
  /\ rcPhase = "walk"
  /\ rcOut' = WalkStep(rcOut, rcSorted, rcIdx)
  /\ rcIdx' = rcIdx + 1
  /\ rcPhase' = IF rcIdx = Len(rcSorted) THEN "done" ELSE "walk"
  /\ UNCHANGED <<rcIn, rcSorted, rcPass, rcFirst, rcPerm, appVars, runVars, svcVars, logVars, fileVars, areaVars>>

\* the output of the first pass becomes the input of a second pass
rcAgain ==
  /\ rcPhase = "done"
  /\ rcPass = 1
  /\ rcFirst' = rcOut
  /\ rcPass' = 2
  /\ rcPhase' = "input"
  /\ rcSorted' = <<>>
  /\ rcIdx' = 0
  /\ rcOut' = <<>>
  /\ UNCHANGED <<rcIn, rcPerm, appVars, runVars, svcVars, logVars, fileVars, areaVars>>

NextReconcile == rcSort \/ rcStep \/ rcAgain

SpecReconcile == InitReconcile /\ [][NextReconcile]_vars


(***************************************************************************)
(* Runs interleaved with the jump-to control of the subtitle list.  The    *)
(* initial state is the one left by a completed run on the window [0, 0.7] *)
(* of a 5 s video whose only batch produced one subtitle starting at 1 s.  *)
(***************************************************************************)
\* App.tsx lines 223-227, called by the onClick of a subtitle card (SubtitleResult.tsx 106)
onJumpTo(t) ==
  /\ videoUrl
  /\ \E k \in 1..Len(subtitles) : subtitles[k].startTime = t
  /\ vtime' = t
  /\ UNCHANGED <<videoUrl, metadata, timeRange, subtitles, processState, apiKey,
                 runVars, svcVars, logVars, fileVars, rcVars, areaVars>>

InitJump ==
  /\ videoUrl = TRUE
  /\ metadata = [loaded |-> TRUE, duration |-> 50]
  /\ timeRange = [start |-> 0, end |-> 7]
  /\ subtitles = << Item(<<"H", "i">>, 10, 14) >>
  /\ processState = CompleteState
  /\ vtime = 0
  /\ apiKey = TRUE
  /\ pc = "done"
  /\ runRange = [start |-> 0, end |-> 7]
  /\ originalTime = 0
  /\ totalSteps = 2
  /\ current = 10
  /\ count = 2
  /\ framesToProcess = << [data |-> 0, timestamp |-> 0], [data |-> 5, timestamp |-> 5] >>
  /\ i = 10
  /\ allSubs = <<>>
  /\ inflight = {}
  /\ requests = << framesToProcess >>
  /\ received = << JsonArray(<< Item(<<"H", "i">>, 10, 14) >>) >>
  /\ lastError = ""
  /\ runsActive = 0
  /\ refused = FALSE
  /\ runOnOldFile = FALSE
  /\ listOnOldFile = FALSE
  /\ InitArea
  /\ InitRc

JumpPayloads ==
  WindowPayloads \cup { JsonArray(<< Item(<<"Y", "o">>, 18, 24), Item(<<"h", "i", " ">>, 17, 24) >>) }

NextJump ==
  \/ startOCR
  \/ seeked
  \/ \E p \in JumpPayloads : response(p)
  \/ \E t \in StartTimes : onJumpTo(t)

SpecJump == InitJump /\ [][NextJump]_vars


(***************************************************************************)
(* Runs on every window under the assumption that the video element       *)
(* confirms every seek and that every recognition call settles.            *)
(***************************************************************************)
SpecLive ==
  /\ SpecWindow
  /\ WF_vars(seeked)
  /\ WF_vars(\E p \in WindowPayloads : response(p))


(***************************************************************************)
(* Edits of the region: the sliders, the aspect lock and the reset of      *)
(* OCRSettings, and the drag and resize gestures of VideoPlayer.  Both     *)
(* components are rendered once a video url is set.  edits counts the      *)
(* edits and is capped by MaxEdits, because repeated locked edits give     *)
(* ever new fractions.                                                     *)
(***************************************************************************)
MaxEdits == 4

\* values of the range inputs (OCRSettings.tsx lines 109-132): positions 0..100, sizes 5..100
SliderPositions == {0, 50, 95}
SliderSizes == {5, 40, 100}
SliderValues(key) == IF key \in {"x", "y"} THEN SliderPositions ELSE SliderSizes

\* pointer displacements of a gesture in percent of the displayed video (dx, dy)
Moves == { <<0 - 30, 0 - 20>>, <<40, 10>> }

\* OCRSettings.tsx lines 33-49
updateArea(key, val) ==
  /\ videoUrl
  /\ edits < MaxEdits
  /\ edits' = edits + 1
  /\ IF lockAspect /\ key \in {"width", "height"}
     THEN /\ area' = IF key = "width"
                     THEN [area EXCEPT !.width = val,
                                       !.height = RMin(RSub(Whole(100), area.y), RDiv(val, aspectRatioValue))]
                     ELSE [area EXCEPT !.height = val,
                                       !.width = RMin(RSub(Whole(100), area.x), RMul(val, aspectRatioValue))]
          /\ UNCHANGED aspectRatioValue
     ELSE /\ area' = [area EXCEPT ![key] = val]
          /\ aspectRatioValue' = IF key \in {"width", "height"}
                                 THEN RDiv(area'.width, area'.height)
                                 ELSE aspectRatioValue
  /\ UNCHANGED <<lockAspect, gesture, startArea, appVars, runVars, svcVars, logVars, fileVars, rcVars>>

\* OCRSettings.tsx lines 51-54
toggleLock ==
  /\ videoUrl
  /\ edits < MaxEdits
  /\ edits' = edits + 1
  /\ aspectRatioValue' = RDiv(area.width, area.height)
  /\ lockAspect' = ~lockAspect
  /\ UNCHANGED <<area, gesture, startArea, appVars, runVars, svcVars, logVars, fileVars, rcVars>>

\* OCRSettings.tsx lines 64-67
resetArea ==
  /\ videoUrl
  /\ edits < MaxEdits
  /\ edits' = edits + 1
  /\ area' = [x |-> Whole(10), y |-> Whole(70), width |-> Whole(80), height |-> Whole(20)]
  /\ aspectRatioValue' = RDiv(Whole(80), Whole(20))
  /\ UNCHANGED <<lockAspect, gesture, startArea, appVars, runVars, svcVars, logVars, fileVars, rcVars>>

\* VideoPlayer.tsx lines 89-94: mouse down or touch start on the rectangle or on its handle
startAction(type) ==
  /\ videoUrl
  /\ edits < MaxEdits
  /\ edits' = edits + 1
  /\ gesture' = IF type = "drag" THEN [gesture EXCEPT !.isDragging = TRUE]
                ELSE [gesture EXCEPT !.isResizing = TRUE]
  /\ startArea' = area
  /\ UNCHANGED <<area, lockAspect, aspectRatioValue, appVars, runVars, svcVars, logVars, fileVars, rcVars>>

\* VideoPlayer.tsx lines 107-127; the move listeners exist only during a gesture (139-144)
handleMove(dx, dy) ==
  /\ videoUrl
  /\ gesture.isDragging \/ gesture.isResizing
  /\ edits < MaxEdits
  /\ edits' = edits + 1
  /\ area' = IF gesture.isDragging
             THEN [startArea EXCEPT
                     !.x = RMin(RMax(Whole(0), RAdd(startArea.x, Whole(dx))), RSub(Whole(100), startArea.width)),
                     !.y = RMin(RMax(Whole(0), RAdd(startArea.y, Whole(dy))), RSub(Whole(100), startArea.height))]
             ELSE [startArea EXCEPT
                     !.width = RMin(RMax(Whole(5), RAdd(startArea.width, Whole(dx))), RSub(Whole(100), startArea.x)),
                     !.height = RMin(RMax(Whole(5), RAdd(startArea.height, Whole(dy))), RSub(Whole(100), startArea.y))]
  /\ UNCHANGED <<lockAspect, aspectRatioValue, gesture, startArea, appVars, runVars, svcVars, logVars, fileVars, rcVars>>

\* VideoPlayer.tsx lines 136-139: mouse up or touch end
endAction ==
  /\ videoUrl
  /\ gesture.isDragging \/ gesture.isResizing
  /\ edits < MaxEdits
  /\ edits' = edits + 1
  /\ gesture' = [isDragging |-> FALSE, isResizing |-> FALSE]
  /\ UNCHANGED <<area, lockAspect, aspectRatioValue, startArea, appVars, runVars, svcVars, logVars, fileVars, rcVars>>

InitRegion == InitApp /\ InitRc /\ apiKey = TRUE

NextRegion ==
  \/ handleFileChange
  \/ \E key \in {"x", "y", "width", "height"} : \E v \in SliderValues(key) : updateArea(key, Whole(v))
  \/ toggleLock
  \/ resetArea
  \/ \E type \in {"drag", "resize"} : startAction(type)
  \/ \E m \in Moves : handleMove(m[1], m[2])
  \/ endAction

SpecRegion == InitRegion /\ [][NextRegion]_vars


(***************************************************************************)
(* Edits of the time window: a file is chosen, its metadata arrives, and   *)
(* numbers are typed into the IN and OUT inputs.  A number input reports   *)
(* whatever is typed; its min and max attributes only mark the value as    *)
(* invalid.                                                                *)
(***************************************************************************)
MaxInput == 12

RangeDurations == {10}
RangeInputs == (0 - 1)..MaxInput

InitRange == InitApp /\ InitRc /\ apiKey = TRUE

NextRange ==
  \/ handleFileChange
  \/ \E d \in RangeDurations : handleMetadataLoaded(d)
  \/ \E v \in RangeInputs : setTimeRangeStart(v)
  \/ \E v \in RangeInputs : setTimeRangeEnd(v)

SpecRange == InitRange /\ [][NextRange]_vars


(***************************************************************************)
(* The reconcile pass on a candidate list and on its permutations: the     *)
(* list is walked step by step, then the pass is applied to a permutation  *)
(* of the same candidates (another accumulation order).                    *)
(***************************************************************************)
MaxPermLen == 3

\* candidates of 0.4 s: three texts, two of them equal after trim and toLowerCase
PermTexts == { <<"H", "i">>, <<"h", "i", " ">>, <<"Y", "o">> }
PermStarts == {10, 13, 18}
PermCand == { [text |-> t, startTime |-> s, endTime |-> s + 4] : t \in PermTexts, s \in PermStarts }
PermLists == UNION {[1..n -> PermCand] : n \in 0..MaxPermLen}

\* the orders in which n candidates can have been accumulated
Perms(n) == { f \in [1..n -> 1..n] : \A a, b \in 1..n : f[a] = f[b] => a = b }

InitPermute ==
  /\ InitApp
  /\ apiKey = TRUE
  /\ rcPhase = "input"
  /\ rcIn \in PermLists
  /\ rcSorted = <<>>
  /\ rcIdx = 0
  /\ rcOut = <<>>
  /\ rcPass = 1
  /\ rcFirst = <<>>
  /\ rcPerm = <<>>

\* lines 131-141 on the same candidates accumulated in the order f
rcPermute(f) ==
  /\ rcPhase = "done"
  /\ rcPass = 1
  /\ rcPass' = 3
  /\ rcFirst' = rcOut
  /\ rcPerm' = [k \in 1..Len(rcIn) |-> rcIn[f[k]]]
  /\ rcOut' = Reconcile(rcPerm')
  /\ UNCHANGED <<rcPhase, rcIn, rcSorted, rcIdx, appVars, runVars, svcVars, logVars, fileVars, areaVars>>

NextPermute ==
  \/ rcSort
  \/ rcStep
  \/ \E f \in Perms(Len(rcIn)) : rcPermute(f)

SpecPermute == InitPermute /\ [][NextPermute]_vars


(***************************************************************************)
(* Properties.                                                             *)
(***************************************************************************)
Last(q) == q[Len(q)]

SameText(a, b) == Norm(a.text) = Norm(b.text)

\* the errors processFrames throws (lines 33-35 and 82-85)
RecognitionErrors == {"ApiKeyMissing", "ServiceError", "SyntaxError: JSON.parse", "TypeError: results.map"}

\* a step of the run (startOCR, seeked or response), as opposed to a step of another handler
RunStep == pc' # pc \/ count' # count \/ received' # received

\* C1: when processFrames fails for a batch, that step ends the run in Failed (isProcessing
\* false, progress 0, status 'Failed.'), leaves the subtitle list and the log of submitted
\* batches as they were and leaves no request in flight; the failed run then submits nothing
\* more, and no step of a run other than its successful completion changes the subtitle list.
C1_AbortOnFailure ==
  [][ /\ (pc \in {"capture", "recognize"} /\ lastError' \in RecognitionErrors)
         => /\ pc' = "failed"
            /\ processState' = FailedState
            /\ subtitles' = subtitles
            /\ requests' = requests
            /\ inflight' = {}
      /\ (pc = "failed" /\ pc' = "failed")
         => (requests' = requests /\ inflight' = {} /\ processState' = FailedState)
      /\ (RunStep /\ pc' # "done") => subtitles' = subtitles ]_vars

\* C1 witness: a run failed on its first batch of two with a rejected request while the
\* list of an earlier run is still displayed
C1_Witness ==
  /\ pc = "failed"
  /\ lastError = "ServiceError"
  /\ Len(framesToProcess) > batchSize
  /\ Len(requests) = 1
  /\ subtitles # <<>>
  /\ processState = FailedState

\* C2 (as claimed): every run that received a payload with missing or empty text, text that
\* is not JSON, JSON that is not an array, or an item without text is in Failed.
NonConforming(p) ==
  \/ p.kind \in {"undefined", "empty", "garbage", "object"}
  \/ \E k \in 1..Len(p.items) : p.items[k].text = Undefined

C2_MalformedNeverCoerced ==
  \A k \in 1..Len(received) : NonConforming(received[k]) => pc = "failed"

\* C10: at most one request is in flight, the batch k+1 is submitted only once k responses
\* have been received, and the submitted batches follow the frame order.
C10_OneBatchInFlight ==
  /\ Cardinality(inflight) <= 1
  /\ Len(requests) <= Len(received) + 1
  /\ (inflight # {}) => (pc = "recognize" /\ Len(requests) = Len(received) + 1)
  /\ \A k \in 1..(Len(requests) - 1) :
       Last(requests[k]).timestamp < requests[k + 1][1].timestamp

\* C10 witness: the second batch is in flight after the first response was received
C10_Witness ==
  /\ pc = "recognize"
  /\ Len(requests) = 2
  /\ Len(received) = 1
  /\ Cardinality(inflight) = 1


\* C3: the accepted list is sorted ascending by startTime, at every point of the walk and so
\* in the reconciled output.
C3_SortInvariant ==
  \A k \in 1..(Len(rcOut) - 1) : rcOut[k].startTime <= rcOut[k + 1].startTime

\* C3 witness: a finished pass with several entries whose input was not in start order
C3_Witness ==
  /\ rcPhase = "done"
  /\ rcPass = 1
  /\ Len(rcOut) >= 2
  /\ \E k \in 1..(Len(rcIn) - 1) : rcIn[k].startTime > rcIn[k + 1].startTime

\* C4: in a walk step on a candidate with non-empty trimmed text, the candidate is merged
\* exactly when an accepted entry exists whose trimmed lower-cased text equals its own and
\* its startTime is at most that entry's endTime + 0.3 s; the merge adds no entry, keeps the
\* text, the startTime and the earlier entries and sets endTime to the larger endTime;
\* otherwise the candidate is appended as a new entry.
C4_MergeRule ==
  [][ (rcPhase = "walk" /\ rcIdx' = rcIdx + 1 /\ Trim(rcSorted[rcIdx].text) # <<>>)
      => LET c == rcSorted[rcIdx]
             n == Len(rcOut)
         IN IF n > 0 /\ SameText(c, rcOut[n]) /\ c.startTime <= rcOut[n].endTime + 3
            THEN /\ Len(rcOut') = n
                 /\ \A k \in 1..(n - 1) : rcOut'[k] = rcOut[k]
                 /\ rcOut'[n].text = rcOut[n].text
                 /\ rcOut'[n].startTime = rcOut[n].startTime
                 /\ rcOut'[n].endTime >= rcOut[n].endTime
                 /\ rcOut'[n].endTime >= c.endTime
                 /\ rcOut'[n].endTime \in {rcOut[n].endTime, c.endTime}
            ELSE rcOut' = Append(rcOut, c) ]_vars

\* C4 witness: of three same-text candidates the second was merged into the first at a gap
\* of exactly 0.3 s and the third, 0.4 s after the merged end, stayed separate
C4_Witness ==
  /\ rcPhase = "done"
  /\ rcPass = 1
  /\ Len(rcSorted) = 3
  /\ Len(rcOut) = 2
  /\ SameText(rcOut[1], rcOut[2])
  /\ rcSorted[2].startTime = rcSorted[1].endTime + 3
  /\ rcOut[2].startTime = rcOut[1].endTime + 4
  /\ rcSorted[1].text # rcSorted[2].text

\* C5: a walk step on a candidate whose trimmed text is empty leaves the accepted list as it
\* is, and no accepted entry ever has an empty trimmed text.
C5_EmptyDropped ==
  [][ /\ (rcPhase = "walk" /\ rcIdx' = rcIdx + 1 /\ Trim(rcSorted[rcIdx].text) = <<>>)
         => rcOut' = rcOut
      /\ \A k \in 1..Len(rcOut') : Trim(rcOut'[k].text) # <<>> ]_vars

\* C5 witness: a finished pass whose second candidate had an empty trimmed text and whose
\* output is not empty
C5_Witness ==
  /\ rcPhase = "done"
  /\ rcPass = 1
  /\ Len(rcSorted) = 3
  /\ Trim(rcSorted[2].text) = <<>>
  /\ SameText(rcSorted[1], rcSorted[3])
  /\ rcOut # <<>>

\* C6: the second pass, run on the output of the first, returns that output.
C6_Idempotent ==
  (rcPass = 2 /\ rcPhase = "done") => rcOut = rcFirst

\* C6 witness: the second pass finished on a two-entry list that the first pass had got by
\* merging one of three candidates
C6_Witness ==
  /\ rcPass = 2
  /\ rcPhase = "done"
  /\ Len(rcIn) = 3
  /\ Len(rcFirst) = 2
  /\ SameText(rcFirst[1], rcFirst[2])

\* C7 (as claimed): no two entries of the reconciled output, consecutive or not, have the same
\* normalized text while the later one starts at most 0.3 s after the earlier one ends.
C7_NoDuplicateAnyPair ==
  rcPhase = "done" =>
    \A a \in 1..Len(rcOut) : \A b \in (a + 1)..Len(rcOut) :
      ~(SameText(rcOut[a], rcOut[b]) /\ rcOut[b].startTime <= rcOut[a].endTime + 3)

\* C7 (amended): no two consecutive entries of the accepted list have the same normalized
\* text while the later one starts at most 0.3 s after the earlier one ends.
C7_NoDuplicateConsecutive ==
  \A a \in 1..(Len(rcOut) - 1) :
    ~(SameText(rcOut[a], rcOut[a + 1]) /\ rcOut[a + 1].startTime <= rcOut[a].endTime + 3)

\* C7 witness: a finished pass that merged one candidate and kept two consecutive entries of
\* the same normalized text
C7_Witness ==
  /\ rcPhase = "done"
  /\ Len(rcIn) = 3
  /\ Len(rcOut) = 2
  /\ SameText(rcOut[1], rcOut[2])
  /\ rcOut[2].startTime > rcOut[1].endTime + 3
  /\ \E k \in 1..3 : rcIn[k].text # rcOut[1].text /\ SameText(rcIn[k], rcOut[1])

\* C8: the frames captured so far carry the timestamps start, start + 0.5 s, ... in order,
\* all within [start, end], and once the sampling loop has ended on a window with
\* start <= end there are exactly floor((end - start) / 0.5) + 1 of them.
SamplingOver == pc \in {"recognize", "done"} \/ (pc = "failed" /\ lastError \in RecognitionErrors)

C8_SamplingCoverage ==
  /\ \A k \in 1..Len(framesToProcess) :
       /\ framesToProcess[k].timestamp = runRange.start + (k - 1) * 5
       /\ framesToProcess[k].timestamp >= runRange.start
       /\ framesToProcess[k].timestamp <= runRange.end
  /\ (SamplingOver /\ runRange.start <= runRange.end)
       => Len(framesToProcess) = ((runRange.end - runRange.start) \div 5) + 1

\* C8 witness: the window [0, 5 s] sampled into 11 frames, the last at 5.0 s
C8_Witness ==
  /\ pc = "recognize"
  /\ runRange = [start |-> 0, end |-> 50]
  /\ Len(framesToProcess) = 11
  /\ framesToProcess[11].timestamp = 50

\* C9: the k-th submitted batch is the k-th group of 10 consecutive frames (the last group
\* holding the 1 to 10 frames that remain), and a completed run has submitted ceil(n / 10)
\* batches whose concatenation is the frame sequence.
RECURSIVE Flatten(_)
Flatten(qs) == IF qs = <<>> THEN <<>> ELSE Head(qs) \o Flatten(Tail(qs))

C9_BatchPartition ==
  LET n == Len(framesToProcess) IN
  /\ \A k \in 1..Len(requests) :
       /\ Len(requests[k]) = (IF 10 * k <= n THEN 10 ELSE n - 10 * (k - 1))
       /\ Len(requests[k]) >= 1
       /\ \A j \in 1..Len(requests[k]) : requests[k][j] = framesToProcess[10 * (k - 1) + j]
  /\ pc = "done" =>
       /\ Len(requests) = (n + 9) \div 10
       /\ Flatten(requests) = framesToProcess

\* C9 witness: 23 frames submitted as batches of 10, 10 and 3
C9_Witness ==
  /\ pc = "done"
  /\ Len(framesToProcess) = 23
  /\ Len(requests) = 3
  /\ Len(requests[1]) = 10
  /\ Len(requests[2]) = 10
  /\ Len(requests[3]) = 3


(***************************************************************************)
(* Stages of a run.  capture is Sampling, recognize is Recognizing; the    *)
(* reconcile pass and the completion are the end of the step that takes    *)
(* the last response.                                                      *)
(***************************************************************************)
Terminal == {"idle", "done", "failed"}

\* number of frames the loop of lines 102-112 takes on a window
FramesInWindow(range) ==
  IF range.start > range.end THEN 0 ELSE FloorDiv(range.end - range.start, step) + 1

\* a step in which startOCR passes line 86 and begins a run on the current window
StartsRun ==
  /\ runRange' = timeRange
  /\ framesToProcess' = <<>>
  /\ requests' = <<>>
  /\ received' = <<>>
  /\ count' = 0
  /\ \/ pc' = "capture"
     \/ pc' = "done" /\ timeRange.start > timeRange.end

C11_StageStep ==
  /\ pc = "capture" =>
        /\ pc' \in {"capture", "recognize", "failed"}
        /\ count' >= count
        /\ Len(framesToProcess') >= Len(framesToProcess)
  /\ pc = "recognize" =>
        /\ pc' \in {"recognize", "done", "failed"}
        /\ framesToProcess' = framesToProcess
        /\ Len(requests') >= Len(requests)
  /\ requests' # requests /\ requests' # <<>> =>
        Len(framesToProcess') = FramesInWindow(runRange')
  /\ pc # "done" /\ pc' = "done" =>
        /\ inflight' = {}
        /\ Len(received') = Len(requests')
        /\ Len(requests') = CeilDiv(Len(framesToProcess'), batchSize)
        /\ Len(framesToProcess') = FramesInWindow(runRange')
  /\ pc \in Terminal =>
        \/ StartsRun
        \/ UNCHANGED <<pc, framesToProcess, requests, received, inflight, count, i,
                       processState, vtime>>

\* C11: a run moves only forward through Idle, Sampling, Recognizing, Reconciling, Done,
\* with Failed reachable from the active stages: a batch is submitted only when every
\* frame of the window has been captured, the run completes only when every submitted
\* batch has been answered, and after Done or Failed nothing is captured, submitted or
\* updated until startOCR begins a new run.
C11_StagesForward == [][C11_StageStep]_vars

\* a run went through every stage with two batches after an earlier run had failed
C11_Witness ==
  /\ pc = "done"
  /\ Len(framesToProcess) > batchSize
  /\ Len(received) = 2
  /\ subtitles # <<>>
  /\ Len(framesToProcess) = FramesInWindow(runRange)

\* C12: at most one run is in progress at any time, and while one is in progress the
\* flag isProcessing is true, so that the start control is not rendered.
C12_SingleRun ==
  /\ runsActive <= 1
  /\ (runsActive >= 1) = (pc \in Running)
  /\ pc \in Running => processState.isProcessing

\* a second run is in progress after a first one has completed with subtitles
C12_Witness ==
  /\ runsActive = 1
  /\ pc = "capture"
  /\ subtitles # <<>>
  /\ processState.isProcessing

\* C13: every sampled frame holds the picture of the position of its own timestamp
\* (the window lies inside the video, so the seek target is the timestamp itself):
\* no seek other than the pipeline's decides what a frame shows.
C13_FrameShowsOwnTimestamp ==
  \A k \in 1..Len(framesToProcess) :
    framesToProcess[k].data = framesToProcess[k].timestamp

\* C14: when a run that passed the check of line 86 has ended, complete or failed, the
\* playback position is the one the video had when the run started.
C14_PositionRestored ==
  pc \in {"done", "failed"} => vtime = originalTime

\* C15: with the API key missing no work is done: the video is never seeked for a frame,
\* no frame is captured, and a run never completes.
C15_MissingKeyFailsFirst ==
  ~apiKey => pc \notin {"capture", "done"} /\ framesToProcess = <<>>

C16_AbortStep ==
  videoUrl /\ ~metadata.loaded /\ ~processState.isProcessing =>
    /\ UNCHANGED <<pc, framesToProcess, count, requests, received, inflight, processState,
                   vtime, runsActive>>
    /\ \/ subtitles' = subtitles
       \/ subtitles' = <<>> /\ metadata' = NoMetadata /\ refused' = refused
    /\ refused' # refused => subtitles' = subtitles

\* C16: while the start control is shown and no metadata is loaded, an invocation of
\* startOCR returns at line 86: no frame is captured, no recognition request is made, the
\* processing state and the position are untouched and the subtitle list stays as it is
\* (only loading another file empties it).
C16_AbortBeforeAnyFrame == [][C16_AbortStep]_vars

\* startOCR has returned at line 86 while subtitles of an earlier run were listed
C16_Witness ==
  /\ refused
  /\ ~metadata.loaded
  /\ subtitles # <<>>
  /\ pc = "done"
  /\ requests # <<>>

\* C17: if every seek is confirmed and every recognition call settles, a run that has set
\* isProcessing to true reaches Done or Failed and sets isProcessing back to false.
C17_RunEnds ==
  processState.isProcessing ~> (pc \in {"done", "failed"} /\ ~processState.isProcessing)

\* a run over two batches has ended and the flag is false again
C17_Witness ==
  /\ pc \in {"done", "failed"}
  /\ ~processState.isProcessing
  /\ Len(requests) = 2
  /\ Len(received) = 2
  /\ runsActive = 0

\* C18: after any sequence of region edits from the default region,
\* x + width <= 100, y + height <= 100, width >= 5 and height >= 5.
C18_RegionInFrame ==
  /\ RLe(RAdd(area.x, area.width), Whole(100))
  /\ RLe(RAdd(area.y, area.height), Whole(100))
  /\ RLe(Whole(5), area.width)
  /\ RLe(Whole(5), area.height)

\* C19: once metadata is loaded, after any sequence of edits of the IN and OUT inputs
\* 0 <= start <= end <= duration.
C19_WindowOrdered ==
  metadata.loaded =>
    /\ 0 <= timeRange.start
    /\ timeRange.start <= timeRange.end
    /\ timeRange.end <= metadata.duration

DistinctStarts(s) ==
  \A a, b \in 1..Len(s) : s[a].startTime = s[b].startTime => a = b

\* C20 (as claimed): for every permutation of the same candidates, ties of startTime
\* included, the pass yields the same sequence of (text, startTime, endTime).
C20_OrderIndependent ==
  rcPass = 3 => rcOut = rcFirst

\* C20 (amended): for every permutation of candidates whose startTimes are pairwise
\* distinct, the pass yields the same sequence of (text, startTime, endTime).
C20_OrderIndependentDistinctStarts ==
  (rcPass = 3 /\ DistinctStarts(rcIn)) => rcOut = rcFirst

\* three candidates with distinct startTimes, accumulated in reverse order, two of them merged
C20_Witness ==
  /\ rcPass = 3
  /\ Len(rcIn) = 3
  /\ DistinctStarts(rcIn)
  /\ rcPerm = << rcIn[3], rcIn[2], rcIn[1] >>
  /\ rcIn[1].startTime < rcIn[2].startTime
  /\ rcIn[2].startTime < rcIn[3].startTime
  /\ Len(rcOut) = 2

\* C21: after a batch has completed, progress is 30 + 65 * (batches completed / total batches),
\* and the status names the completed batch as segment k of N with 1 <= k <= N = ceil(frames / 10).
C21_DispatchProgress ==
  processState.currentStep.msg = "Decoding segment" =>
    LET k == processState.currentStep.a
        N == processState.currentStep.b
    IN  /\ N = CeilDiv(Len(framesToProcess), batchSize)
        /\ 1 <= k /\ k <= N
        /\ k = Len(received)
        /\ processState.progress.num * N = processState.progress.den * (30 * N + 65 * k)

\* C22: after a captured frame, progress is 25 * (frames captured / frames the sampler takes
\* on the window), the captured count never exceeds the expected total of the status, and
\* progress is 25 only when the last frame has been captured.
C22_SamplingProgress ==
  processState.currentStep.msg = "Extracting frames" =>
    LET n == FramesInWindow(runRange)
    IN  /\ processState.currentStep.a = count
        /\ count <= processState.currentStep.b
        /\ processState.progress.num * n = processState.progress.den * 25 * count
        /\ processState.progress.num = 25 * processState.progress.den => count = n

\* comparison of two progress values (fractions with positive denominators)
ProgressLe(p, q) == p.num * q.den <= q.num * p.den

C23_ProgressStep ==
  processState.isProcessing /\ (processState'.isProcessing \/ pc' = "done") =>
    ProgressLe(processState.progress, processState'.progress)

C23_ProgressRange ==
  /\ processState.progress.den > 0
  /\ ProgressLe(Frac(0, 1), processState.progress)
  /\ ProgressLe(processState.progress, Frac(100, 1))
  /\ (processState.progress.num = 100 * processState.progress.den) = (pc = "done")
  /\ pc = "done" => processState = CompleteState

\* C23: while a run is active the reported progress never decreases from one state update
\* to the next (the completion included), it is within [0, 100] in every state, and it is
\* 100 exactly when the last run has completed successfully.
C23_ProgressMonotone == [](C23_ProgressRange) /\ [][C23_ProgressStep]_vars

\* the second batch of a run is awaited with progress above 30 after sampling had reached 25
C23_Witness ==
  /\ pc = "recognize"
  /\ processState.isProcessing
  /\ Len(received) = 1
  /\ count = Len(framesToProcess)
  /\ ProgressLe(Frac(30, 1), processState.progress)
  /\ processState.currentStep.msg = "Decoding segment"

\* C24: the displayed subtitle list belongs to the loaded video: it is never the result of
\* a run that was started before the current file was chosen, so after a file is loaded
\* the list is empty until a run started on that file completes.
C24_ListOfLoadedVideo ==
  /\ subtitles # <<>> => ~listOnOldFile
  /\ ~metadata.loaded => subtitles = <<>>
====
